---- MODULE Spec2Model ----
(***************************************************************************)
(* Model of the withdrawal backend of src/main.py: the contract ordering   *)
(* policy, the mint/transfer fallback dispatcher process_withdrawal, the   *)
(* POST /api/engine/withdraw endpoint in front of it, and the part of the  *)
(* chain the dispatcher talks to (the signer's nonce, the pending pool and *)
(* the mined receipts).                                                    *)
(***************************************************************************)
EXTENDS Integers, Sequences, FiniteSets, TLC

(***************************************************************************)
(* Arbitrary-precision naturals.  TLC's integers are 32 bits wide and the  *)
(* base-unit amounts of an 18-decimal token are not, so a natural is a     *)
(* sequence of limbs in base 2^LimbBits, least significant first, without  *)
(* leading zero limbs (<<>> is 0).  Python's int is unbounded and Python's *)
(* float is an IEEE double: both are modelled on these.                    *)
(***************************************************************************)
LimbBits == 15
Base == 2 ^ LimbBits

RECURSIVE NatNorm(_)
NatNorm(a) ==
    IF a = <<>> THEN <<>>
    ELSE IF a[Len(a)] = 0 THEN NatNorm(SubSeq(a, 1, Len(a) - 1))
    ELSE a

Limb(a, j) == IF j >= 1 /\ j <= Len(a) THEN a[j] ELSE 0

RECURSIVE NatAddC(_, _, _, _)
NatAddC(a, b, j, c) ==
    IF j > Len(a) /\ j > Len(b) THEN (IF c = 0 THEN <<>> ELSE <<c>>)
    ELSE LET s == Limb(a, j) + Limb(b, j) + c
         IN  <<s % Base>> \o NatAddC(a, b, j + 1, s \div Base)

NatAdd(a, b) == NatNorm(NatAddC(a, b, 1, 0))

\* a times the single limb x
RECURSIVE NatMulLimbC(_, _, _, _)
NatMulLimbC(a, x, j, c) ==
    IF j > Len(a) THEN (IF c = 0 THEN <<>> ELSE <<c>>)
    ELSE LET p == a[j] * x + c
         IN  <<p % Base>> \o NatMulLimbC(a, x, j + 1, p \div Base)

RECURSIVE NatMulFrom(_, _, _)
NatMulFrom(a, b, j) ==
    IF j > Len(a) THEN <<>>
    ELSE LET rest == NatMulFrom(a, b, j + 1)
         IN  NatAdd(NatNorm(NatMulLimbC(b, a[j], 1, 0)),
                    IF rest = <<>> THEN <<>> ELSE <<0>> \o rest)

NatMul(a, b) == NatMulFrom(a, b, 1)

\* 10 ** d on Python ints (exact).
RECURSIVE NatPow10(_)
NatPow10(d) ==
    IF d = 0 THEN <<1>>
    ELSE IF d % 2 = 1 THEN NatMul(NatPow10(d - 1), <<10>>)
    ELSE LET h == NatPow10(d \div 2) IN NatMul(h, h)

\* The natural written in decimal digits, most significant first.
RECURSIVE NatOfDigits(_)
NatOfDigits(ds) ==
    IF ds = <<>> THEN <<>>
    ELSE IF Len(ds) = 1 THEN NatNorm(<<ds[1]>>)
    ELSE LET h == Len(ds) \div 2
         IN  NatAdd(NatMul(NatOfDigits(SubSeq(ds, 1, h)), NatPow10(Len(ds) - h)),
                    NatOfDigits(SubSeq(ds, h + 1, Len(ds))))

\* Bit i (from 0) of a, and the number of significant bits of a.
NatBit(a, i) == (Limb(a, (i \div LimbBits) + 1) \div (2 ^ (i % LimbBits))) % 2

NatBitLen(a) ==
    IF a = <<>> THEN 0
    ELSE (Len(a) - 1) * LimbBits
         + (CHOOSE n \in 1..LimbBits : 2 ^ (n - 1) <= a[Len(a)] /\ a[Len(a)] < 2 ^ n)

\* a * 2^k
NatShl(a, k) ==
    NatMul(a, [j \in 1..((k \div LimbBits) + 1) |->
                  IF j = (k \div LimbBits) + 1 THEN 2 ^ (k % LimbBits) ELSE 0])

\* floor(a / 2^k)
NatShr(a, k) ==
    LET q == k \div LimbBits
        r == k % LimbBits
    IN  NatNorm([j \in 1..Len(a) |->
                    (Limb(a, j + q) \div (2 ^ r))
                    + (Limb(a, j + q + 1) % (2 ^ r)) * (2 ^ (LimbBits - r))])

(***************************************************************************)
(* Python floats.  A positive finite double is [m, e], the value m * 2^e   *)
(* with m of at most MantissaBits bits; arithmetic rounds to nearest, ties *)
(* to even.  The exponent range is not modelled: the amounts and powers of *)
(* ten used here stay far inside it.                                       *)
(***************************************************************************)
MantissaBits == 53

\* The double nearest to the natural a, as [m, e] with a ~ m * 2^e.
RoundToDouble(a) ==
    IF NatBitLen(a) <= MantissaBits THEN [m |-> a, e |-> 0]
    ELSE LET k      == NatBitLen(a) - MantissaBits
             top    == NatShr(a, k)
             guard  == NatBit(a, k - 1)
             sticky == \E i \in 0..(k - 2) : NatBit(a, i) = 1
             up     == guard = 1 /\ (sticky \/ NatBit(top, 0) = 1)
         IN  [m |-> IF up THEN NatAdd(top, <<1>>) ELSE top, e |-> k]

\* float * int: the int is converted to a double, then the product is rounded.
FloatMulInt(x, n) ==
    LET y == RoundToDouble(n)
        r == RoundToDouble(NatMul(x.m, y.m))
    IN  [m |-> r.m, e |-> x.e + y.e + r.e]

\* int(x) for a positive finite double: truncation toward zero.
IntOfFloat(x) == IF x.e >= 0 THEN NatShl(x.m, x.e) ELSE NatShr(x.m, 0 - x.e)

(***************************************************************************)
(* The amounts a request may carry, named by their JSON text.  FloatOf is  *)
(* what float(data.get("amount", 0)) yields for each: the sign class and,  *)
(* for the positive finite ones, the IEEE double.                          *)
(***************************************************************************)
Amounts == {"1.5", "1.1", "0", "-2.0", "NaN", "Infinity", "abc"}

\* 1.1 is 0x1.199999999999ap+0, that is 4953959590107546 * 2^-52.
Mantissa11 == NatOfDigits(<<4,9,5,3,9,5,9,5,9,0,1,0,7,5,4,6>>)

FloatOf(a) ==
    CASE a = "1.5"      -> [kind |-> "pos",  m |-> <<3>>, e |-> -1]
      [] a = "1.1"      -> [kind |-> "pos",  m |-> Mantissa11, e |-> -52]
      [] a = "0"        -> [kind |-> "zero", m |-> <<>>, e |-> 0]
      [] a = "-2.0"     -> [kind |-> "neg",  m |-> <<1>>, e |-> 1]
      [] a = "NaN"      -> [kind |-> "nan",  m |-> <<>>, e |-> 0]
      [] a = "Infinity" -> [kind |-> "inf",  m |-> <<>>, e |-> 0]
      [] OTHER          -> [kind |-> "unparsable", m |-> <<>>, e |-> 0]

\* amount_requested <= 0 on floats: false for NaN and for +Infinity.
AmountNotPositive(a) == FloatOf(a).kind \in {"zero", "neg"}

\* int(amount_requested * (10 ** token_decimals)) raises ValueError on NaN and
\* OverflowError on an infinity.
ConversionRaises(a) == FloatOf(a).kind \in {"nan", "inf"}

\* int(amount_requested * (10 ** token_decimals)), for a positive finite amount.
AmountInWei(a, decimals) == IntOfFloat(FloatMulInt(FloatOf(a), NatPow10(decimals)))

(***************************************************************************)
(* Strings that the code inspects (addresses) are sequences of one-letter  *)
(* strings, so that str.lower() and the address check really compute.      *)
(* None is Python's None; <<>> is the empty string.                        *)
(***************************************************************************)
None == <<"None">>

\* Python truthiness of an optional string.
Truthy(s) == s # None /\ s # <<>>

LowerChar(c) ==
    CASE c = "A" -> "a" [] c = "B" -> "b" [] c = "C" -> "c"
      [] c = "D" -> "d" [] c = "E" -> "e" [] c = "F" -> "f"
      [] OTHER -> c

UpperChar(c) ==
    CASE c = "a" -> "A" [] c = "b" -> "B" [] c = "c" -> "C"
      [] c = "d" -> "D" [] c = "e" -> "E" [] c = "f" -> "F"
      [] OTHER -> c

\* str.lower() / str.upper()
Lower(s) == [i \in 1..Len(s) |-> LowerChar(s[i])]
Upper(s) == [i \in 1..Len(s) |-> UpperChar(s[i])]

HexDigits == {"0", "1", "2", "3", "4", "5", "6", "7", "8", "9",
              "a", "b", "c", "d", "e", "f", "A", "B", "C", "D", "E", "F"}

\* Addresses are written by their leading hex digits (the 0x prefix dropped)
\* and are AddrLen digits long; the digits not written are 0.
AddrLen == 8
Addr(prefix) == [i \in 1..AddrLen |-> IF i <= Len(prefix) THEN prefix[i] ELSE "0"]

\* Web3.is_address: a hex string of the address length.  (The checksum test
\* of mixed-case addresses is not modelled.)
IsAddress(w) == /\ w # None
                /\ Len(w) = AddrLen
                /\ \A i \in 1..Len(w) : w[i] \in HexDigits

\* The registry of src/main.py, each address by its first eight hex digits.
CONTRACTS == <<
    [id |-> 1, name |-> "Primary",   address |-> Addr(<<"2","9","9","8","3","B","E","4">>)],
    [id |-> 2, name |-> "Secondary", address |-> Addr(<<"0","b","8","A","d","d","0","d">>)],
    [id |-> 3, name |-> "Tertiary",  address |-> Addr(<<"f","9","7","A","3","9","5","8">>)] >>

(***************************************************************************)
(* Contract ordering: process_withdrawal's contract_list.                  *)
(***************************************************************************)
\* for contract in CONTRACTS: if contract["address"].lower() ==
\* preferred_contract.lower(): contract_list.append(contract); break
RECURSIVE ExactMatchFrom(_, _, _)
ExactMatchFrom(registry, preferred_contract, i) ==
    IF i > Len(registry) THEN <<>>
    ELSE IF registry[i].address = preferred_contract THEN <<registry[i]>>
    ELSE ExactMatchFrom(registry, preferred_contract, i + 1)

RECURSIVE FirstMatchFrom(_, _, _)
FirstMatchFrom(registry, preferred_contract, i) ==
    IF i > Len(registry) THEN <<>>
    ELSE IF Lower(registry[i].address) = Lower(preferred_contract) THEN <<registry[i]>>
    ELSE FirstMatchFrom(registry, preferred_contract, i + 1)

\* Mutant of AppendMissingFrom: contract_list.insert(0, contract) for append.
RECURSIVE PrependMissingFrom(_, _, _)
PrependMissingFrom(contract_list, registry, i) ==
    IF i > Len(registry) THEN contract_list
    ELSE PrependMissingFrom(
             IF \E j \in 1..Len(contract_list) : contract_list[j] = registry[i]
             THEN contract_list
             ELSE <<registry[i]>> \o contract_list,
             registry, i + 1)

\* for contract in CONTRACTS: if contract not in contract_list: append
RECURSIVE AppendMissingFrom(_, _, _)
AppendMissingFrom(contract_list, registry, i) ==
    IF i > Len(registry) THEN contract_list
    ELSE AppendMissingFrom(
             IF \E j \in 1..Len(contract_list) : contract_list[j] = registry[i]
             THEN contract_list
             ELSE Append(contract_list, registry[i]),
             registry, i + 1)

\* Mutant of OrderContracts: the addresses compared without .lower().
OrderContractsCaseSensitive(registry, preferred_contract) ==
    AppendMissingFrom(
        IF Truthy(preferred_contract)
        THEN ExactMatchFrom(registry, preferred_contract, 1)
        ELSE <<>>,
        registry, 1)

OrderContracts(registry, preferred_contract) ==
    AppendMissingFrom(
        IF Truthy(preferred_contract)
        THEN FirstMatchFrom(registry, preferred_contract, 1)
        ELSE <<>>,
        registry, 1)

(***************************************************************************)
(* State.                                                                  *)
(***************************************************************************)
VARIABLES
    web3_instance,   \* module global: "None" or "Web3"
    admin_account,   \* module global: "None" or "LocalAccount"
    web3_ready,      \* module global: what init_web3() returned
    pc,              \* per request: where its handler stands
    req,             \* per request: how it arrives (over HTTP, or a direct call) and its
                     \* user_wallet, amount_requested, preferred_contract
    contract_list,   \* per request: the ordered contracts
    index,           \* per request: position in contract_list (from 1)
    frame,           \* per request: the locals of the loop body (token_symbol,
                     \* token_decimals, amount_in_wei, current_nonce, new_nonce, tx_hash)
    outcome,         \* per request: what process_withdrawal returned or raised
    response,        \* per request: the HTTP response of the endpoint
    last_error,      \* per request: why the last failed attempt failed (what is logged)
    attempts,        \* per request: the mint/transfer attempts made so far (history)
    chain_calls,     \* per request: whether it has made any call to the chain (history)
    chain_nonce,     \* chain: the signer's transaction count at the latest block
    pending,         \* chain: the signer's transactions accepted and not yet mined
    receipts,        \* chain: the receipts of the mined transactions
    ord_registry, ord_preferred, ord_result, ord_done,  \* the ordering policy on its own
    sessions,        \* module global: lower-cased wallet address -> {start, active}
    session_calls    \* the start and stop calls made so far, with their responses (history)

globals == <<web3_instance, admin_account, web3_ready, sessions>>
chain   == <<chain_nonce, pending, receipts>>
ordvars == <<ord_registry, ord_preferred, ord_result, ord_done>>
vars == <<web3_instance, admin_account, web3_ready, pc, req, contract_list, index, frame,
          outcome, response, last_error, attempts, chain_calls, chain_nonce, pending,
          receipts, ord_registry, ord_preferred, ord_result, ord_done, sessions,
          session_calls>>

\* The HTTP requests (or direct calls) that may run concurrently.
Requests == {"A", "B"}

(***************************************************************************)
(* Inputs.                                                                 *)
(***************************************************************************)
ValidWallet == Addr(<<"7","0","9","9","7","9","7","0">>)
Wallets == {None, <<>>, <<"7","0">>, Addr(<<"z","z">>), ValidWallet}

NoMatchAddress == Addr(<<"d","e","a","d">>)
Preferreds == {None, Upper(CONTRACTS[2].address), Lower(CONTRACTS[3].address),
               NoMatchAddress}

\* A POST /api/engine/withdraw body, or the arguments of a direct call of
\* process_withdrawal (whose amount is already a number).
HttpRequests == [via : {"http"}, wallet : Wallets, amount : Amounts, preferred : Preferreds]
CallRequests == [via : {"call"}, wallet : Wallets, amount : Amounts \ {"abc"},
                 preferred : {None}]
NoRequest == [via |-> "none", wallet |-> None, amount |-> "0", preferred |-> None]

\* What the chain answers to symbol() and decimals() when the calls succeed.
ChainMetadata == {[symbol |-> "WETH", decimals |-> 18], [symbol |-> "USDC", decimals |-> 6]}
DefaultDecimals == 18
MintGas == 200000
TransferGas == 100000

\* What the environment may do to a chain call: the metadata calls, the gas
\* price read or a nonce read raise; building or signing raises; the node
\* refuses a well-formed transaction; a mined transaction reverts; a receipt
\* does not arrive within the timeout.
Faults == {"metadata", "gas_price", "nonce", "build", "rejected", "revert", "timeout"}

(***************************************************************************)
(* init_web3(), run at import: the values it can leave in the globals.     *)
(***************************************************************************)
InitWeb3 ==
    { \* wallet derivation failed, or no wallet configured: return False
      [web3_instance |-> "None", admin_account |-> "None", web3_ready |-> FALSE],
      \* no provider key, or constructing the client raised: return False
      [web3_instance |-> "None", admin_account |-> "LocalAccount", web3_ready |-> FALSE],
      \* the client is stored before is_connected() is asked: return False
      [web3_instance |-> "Web3", admin_account |-> "LocalAccount", web3_ready |-> FALSE],
      \* connected: return True
      [web3_instance |-> "Web3", admin_account |-> "LocalAccount", web3_ready |-> TRUE] }

NoOutcome == [kind |-> "none"]
NoResponse == [status |-> 0]
NoTx == [by |-> "none", contract |-> 0, fn |-> "none", nonce |-> 0, amount |-> <<>>, gas |-> 0]

\* The locals before the loop body has assigned them.
NoFrame == [token_symbol |-> "unset", token_decimals |-> -1, amount_in_wei |-> <<>>,
            current_nonce |-> -1, new_nonce |-> -1, tx_hash |-> NoTx]

InitRequests ==
    /\ pc = [d \in Requests |-> "idle"]
    /\ contract_list = [d \in Requests |-> <<>>]
    /\ index = [d \in Requests |-> 0]
    /\ frame = [d \in Requests |-> NoFrame]
    /\ outcome = [d \in Requests |-> NoOutcome]
    /\ response = [d \in Requests |-> NoResponse]
    /\ last_error = [d \in Requests |-> "none"]
    /\ attempts = [d \in Requests |-> <<>>]
    /\ chain_calls = [d \in Requests |-> FALSE]
    /\ chain_nonce = 0
    /\ pending = {}
    /\ receipts = {}
    /\ sessions = [k \in {} |-> [start |-> 0, active |-> FALSE]]
    /\ session_calls = <<>>

\* One request arrives, over HTTP or as a direct call, in a process whose
\* initialisation ended in any of the ways it can.
Init ==
    /\ \E g \in InitWeb3 :
          /\ web3_instance = g.web3_instance
          /\ admin_account = g.admin_account
          /\ web3_ready = g.web3_ready
    /\ InitRequests
    /\ \E r \in HttpRequests \cup CallRequests :
          req = [d \in Requests |-> IF d = "A" THEN r ELSE NoRequest]
    /\ ord_registry = CONTRACTS
    /\ ord_preferred = None
    /\ ord_result = <<>>
    /\ ord_done = TRUE

(***************************************************************************)
(* What process_withdrawal returns or raises, and what the endpoint makes  *)
(* of it.                                                                  *)
(***************************************************************************)
Raised(exc, status, detail) ==
    [kind |-> "raise", exc |-> exc, status |-> status, detail |-> detail]

NotConnectedError  == Raised("HTTPException", 503, "Web3 not connected")
InvalidWalletError == Raised("ValueError", 0, "Invalid wallet address")
InvalidAmountError == Raised("ValueError", 0, "Invalid amount")
ExhaustedError     == Raised("HTTPException", 500, "All withdrawal methods exhausted")

SuccessOutcome(method, contract_data, symbol, receipt) ==
    [kind |-> "return", success |-> TRUE, method |-> method,
     contract |-> contract_data.name, contractAddress |-> contract_data.address,
     txHash |-> receipt.tx, blockNumber |-> receipt.blockNumber,
     symbol |-> symbol, gasUsed |-> receipt.gasUsed]

\* withdraw_endpoint, lines 309-315: the result is returned, and every
\* exception (an HTTPException too) becomes HTTPException(500).
EndpointResponse(out) ==
    IF out.kind = "return" THEN [status |-> 200, body |-> out]
    ELSE [status |-> 500, detail |-> <<"Withdrawal failed: ", out.detail>>]

ResponseFor(via, out) == IF via = "http" THEN EndpointResponse(out) ELSE NoResponse

\* process_withdrawal ends for request d with `out`.  (The locals are dead
\* from here on and are forgotten.)
Finish(d, out) ==
    /\ pc' = [pc EXCEPT ![d] = "done"]
    /\ outcome' = [outcome EXCEPT ![d] = out]
    /\ response' = [response EXCEPT ![d] = ResponseFor(req[d].via, out)]
    /\ frame' = [frame EXCEPT ![d] = NoFrame]
    /\ UNCHANGED index


\* The endpoint answers request d itself, without calling process_withdrawal.
EndpointReject(d, status, detail) ==
    /\ pc' = [pc EXCEPT ![d] = "done"]
    /\ response' = [response EXCEPT ![d] = [status |-> status, detail |-> detail]]
    /\ UNCHANGED <<outcome, contract_list, index, frame>>

\* process_withdrawal, lines 125-145: the precondition checks, the contract
\* list, and the entry into the loop.
EnterProcessWithdrawal(d) ==
    IF web3_instance = "None" \/ admin_account = "None"
    THEN Finish(d, NotConnectedError) /\ UNCHANGED contract_list
    ELSE IF ~IsAddress(req[d].wallet)
    THEN Finish(d, InvalidWalletError) /\ UNCHANGED contract_list
    ELSE IF AmountNotPositive(req[d].amount)
    THEN Finish(d, InvalidAmountError) /\ UNCHANGED contract_list
    ELSE LET ordered == OrderContracts(CONTRACTS, req[d].preferred)
         IN  /\ contract_list' = [contract_list EXCEPT ![d] = ordered]
             /\ IF ordered = <<>>
                THEN Finish(d, ExhaustedError)
                ELSE /\ index' = [index EXCEPT ![d] = 1]
                     /\ pc' = [pc EXCEPT ![d] = "contract"]
                     /\ UNCHANGED <<outcome, response, frame>>

\* POST /api/engine/withdraw, lines 290-310.
WithdrawEndpoint(d) ==
    /\ pc[d] = "idle"
    /\ req[d].via = "http"
    /\ IF ~web3_ready
       THEN EndpointReject(d, 503, "Backend not connected to blockchain")
       ELSE IF FloatOf(req[d].amount).kind = "unparsable"
       THEN \* float() raises outside the try: the framework answers 500
            EndpointReject(d, 500, "Internal Server Error")
       ELSE IF ~Truthy(req[d].wallet) \/ AmountNotPositive(req[d].amount)
       THEN EndpointReject(d, 400, "Invalid withdrawal request")
       ELSE EnterProcessWithdrawal(d)
    /\ UNCHANGED <<globals, session_calls, req, last_error, attempts, chain_calls, chain, ordvars>>

\* process_withdrawal called directly.
CallProcessWithdrawal(d) ==
    /\ pc[d] = "idle"
    /\ req[d].via = "call"
    /\ EnterProcessWithdrawal(d)
    /\ UNCHANGED <<globals, session_calls, req, last_error, attempts, chain_calls, chain, ordvars>>

(***************************************************************************)
(* The loop over contract_list.                                            *)
(***************************************************************************)
\* Mutant of NextIndex: the loop stays on the same contract.
NextIndexStays(i) == i

\* enumerate(contract_list) moves to the next index.
NextIndex(i) == i + 1

\* The end of one iteration of the loop (the fall through after the transfer
\* block, or `continue` at line 240): the next contract, or, after the last
\* one, lines 243-244.  (The locals are dead between two iterations: each is
\* assigned again before it is read, so they are forgotten here.)
Advance(d) ==
    IF NextIndex(index[d]) > Len(contract_list[d])
    THEN Finish(d, ExhaustedError)
    ELSE /\ index' = [index EXCEPT ![d] = NextIndex(index[d])]
         /\ pc' = [pc EXCEPT ![d] = "contract"]
         /\ frame' = [frame EXCEPT ![d] = NoFrame]
         /\ UNCHANGED <<outcome, response>>

\* Mutant of ReturnSuccess: the success is logged and the loop goes on.
ReturnSuccessContinues(d, method, receipt) == Advance(d)

\* return {"success": True, ...} at lines 188 and 225.
ReturnSuccess(d, method, receipt) ==
    Finish(d, SuccessOutcome(method, contract_list[d][index[d]],
                             frame[d].token_symbol, receipt))

\* Mutant of MetadataResults: the fallback precision is 6 instead of 18.
MetadataResultsSixDecimals(env) ==
    ChainMetadata
    \cup (IF "metadata" \in env THEN {[symbol |-> "TOKEN", decimals |-> 6]} ELSE {})

\* What symbol().call() and decimals().call() give: the chain's answer, or
\* the defaults of lines 159-160 when either call raised.
MetadataResults(env) ==
    ChainMetadata
    \cup (IF "metadata" \in env
          THEN {[symbol |-> "TOKEN", decimals |-> DefaultDecimals]}
          ELSE {})

\* Lines 148-164: contract handle, token info, amount conversion, gas price, nonce.
TryContract(d, env) ==
    /\ pc[d] = "contract"
    /\ chain_calls' = [chain_calls EXCEPT ![d] = TRUE]
    /\ \E meta \in MetadataResults(env) :
          IF ConversionRaises(req[d].amount)
          THEN \* int() raises: caught at line 238, continue
               Advance(d)
          ELSE \/ \* eth.gas_price or get_transaction_count raises: caught at
                  \* line 238, continue
                  /\ "gas_price" \in env \/ "nonce" \in env
                  /\ Advance(d)
               \/ /\ frame' = [frame EXCEPT ![d] =
                        [token_symbol |-> meta.symbol,
                         token_decimals |-> meta.decimals,
                         amount_in_wei |-> AmountInWei(req[d].amount, meta.decimals),
                         current_nonce |-> chain_nonce,
                         new_nonce |-> -1,
                         tx_hash |-> NoTx]]
                  /\ pc' = [pc EXCEPT ![d] = "mint"]
                  /\ UNCHANGED <<index, outcome, response>>
    /\ UNCHANGED <<globals, session_calls, req, contract_list, last_error, attempts, chain, ordvars>>

(***************************************************************************)
(* The chain as the dispatcher sees it.                                    *)
(***************************************************************************)
\* Mutant of NodeRejects: the node takes every transaction.
NodeAcceptsAll(tx) == FALSE

\* send_raw_transaction: the node refuses a transaction whose nonce is
\* already used by a mined or by a pending transaction of the signer.
NodeRejects(tx) == \/ tx.nonce < chain_nonce
                   \/ \E p \in pending : p.nonce = tx.nonce

\* A pending transaction with the next nonce is mined; the call succeeds
\* (status 1) or reverts (status 0).
Mine(env) ==
    /\ \E tx \in pending, status \in {0, 1} :
          /\ tx.nonce = chain_nonce
          /\ status = 0 => "revert" \in env
          /\ receipts' = receipts \cup {[tx |-> tx, status |-> status,
                                         blockNumber |-> chain_nonce + 1,
                                         gasUsed |-> tx.gas \div 2]}
          /\ pending' = pending \ {tx}
          /\ chain_nonce' = chain_nonce + 1
    /\ UNCHANGED <<globals, session_calls, pc, req, contract_list, index, frame, outcome, response,
                   last_error, attempts, chain_calls, ordvars>>

\* Mutant of ReceiptOk: the status of the receipt is not looked at.
ReceiptAlwaysOk(receipt) == TRUE

\* if receipt['status'] == 1
ReceiptOk(receipt) == receipt.status = 1

Attempt(contract_data, op, result) ==
    [contract |-> contract_data.id, op |-> op, result |-> result]

\* The last attempt of the log ends with `result`.
WithResult(log, result) == [log EXCEPT ![Len(log)].result = result]

(***************************************************************************)
(* METHOD 1: mint().                                                       *)
(***************************************************************************)
\* Mutant of MintFailed: a failed mint gives the contract up (continue).
MintFailedSkips(d) == Advance(d)

\* After the mint block (no return at line 188, or the except at line 198):
\* the transfer block of the same iteration.
MintFailed(d) ==
    /\ pc' = [pc EXCEPT ![d] = "transfer"]
    /\ UNCHANGED <<index, outcome, response, frame>>

\* Lines 167-183: build, sign and broadcast the mint transaction.
MintSend(d, env) ==
    /\ pc[d] = "mint"
    /\ LET contract_data == contract_list[d][index[d]]
           mint_tx == [by |-> d, contract |-> contract_data.id, fn |-> "mint",
                       nonce |-> frame[d].current_nonce,
                       amount |-> frame[d].amount_in_wei, gas |-> MintGas]
       IN  \/ \* chain_id, build_transaction or sign_transaction raises
              /\ "build" \in env
              /\ attempts' = [attempts EXCEPT
                                 ![d] = Append(@, Attempt(contract_data, "mint", "failed"))]
              /\ last_error' = [last_error EXCEPT ![d] = "build"]
              /\ MintFailed(d)
              /\ UNCHANGED chain
           \/ \* send_raw_transaction raises
              /\ NodeRejects(mint_tx) \/ "rejected" \in env
              /\ attempts' = [attempts EXCEPT
                                 ![d] = Append(@, Attempt(contract_data, "mint", "failed"))]
              /\ last_error' = [last_error EXCEPT
                                   ![d] = IF NodeRejects(mint_tx) THEN "nonce_rejected"
                                          ELSE "rejected"]
              /\ MintFailed(d)
              /\ UNCHANGED chain
           \/ \* the node accepts the transaction
              /\ ~NodeRejects(mint_tx)
              /\ pending' = pending \cup {mint_tx}
              /\ frame' = [frame EXCEPT ![d].tx_hash = mint_tx]
              /\ attempts' = [attempts EXCEPT
                                 ![d] = Append(@, Attempt(contract_data, "mint", "sent"))]
              /\ pc' = [pc EXCEPT ![d] = "mint_wait"]
              /\ UNCHANGED <<index, outcome, response, last_error, chain_nonce, receipts>>
    /\ UNCHANGED <<globals, session_calls, req, contract_list, chain_calls, ordvars>>

\* Lines 184-197: wait_for_transaction_receipt returns the receipt.
MintReceipt(d) ==
    /\ pc[d] = "mint_wait"
    /\ \E receipt \in receipts :
          /\ receipt.tx = frame[d].tx_hash
          /\ IF ReceiptOk(receipt)
             THEN /\ attempts' = [attempts EXCEPT ![d] = WithResult(@, "success")]
                  /\ ReturnSuccess(d, "mint", receipt)
                  /\ UNCHANGED last_error
             ELSE /\ attempts' = [attempts EXCEPT ![d] = WithResult(@, "failed")]
                  /\ last_error' = [last_error EXCEPT ![d] = "revert"]
                  /\ MintFailed(d)
    /\ UNCHANGED <<globals, session_calls, req, contract_list, chain_calls, chain, ordvars>>

\* Mutant of MintTimeout: the receipt wait has no timeout.
MintWaitsForever(d) == FALSE /\ UNCHANGED vars

\* Line 184: wait_for_transaction_receipt raises after timeout=120.
MintTimeout(d) ==
    /\ pc[d] = "mint_wait"
    /\ frame[d].tx_hash \in pending
    /\ attempts' = [attempts EXCEPT ![d] = WithResult(@, "failed")]
    /\ last_error' = [last_error EXCEPT ![d] = "timeout"]
    /\ MintFailed(d)
    /\ UNCHANGED <<globals, session_calls, req, contract_list, chain_calls, chain, ordvars>>

(***************************************************************************)
(* METHOD 2: transfer().                                                   *)
(***************************************************************************)
\* Mutant of TransferFailed: a failed transfer starts the contract over.
TransferFailedRetries(d) ==
    /\ pc' = [pc EXCEPT ![d] = "mint"]
    /\ UNCHANGED <<index, outcome, response, frame>>

\* After the transfer block (no return at line 225, or the except at line
\* 235): the iteration ends.
TransferFailed(d) == Advance(d)

\* Mutant of NewNonce: the nonce read for the mint is used again.
StaleNonce(d) == frame[d].current_nonce

\* new_nonce = web3_instance.eth.get_transaction_count(admin_address), line 205.
NewNonce(d) == chain_nonce

\* Lines 202-205: the transfer block starts by reading the nonce again.
TransferNonce(d, env) ==
    /\ pc[d] = "transfer"
    /\ LET contract_data == contract_list[d][index[d]]
       IN  \/ \* get_transaction_count raises
              /\ "nonce" \in env
              /\ attempts' = [attempts EXCEPT
                                 ![d] = Append(@, Attempt(contract_data, "transfer", "failed"))]
              /\ last_error' = [last_error EXCEPT ![d] = "nonce"]
              /\ TransferFailed(d)
           \/ /\ frame' = [frame EXCEPT ![d].new_nonce = NewNonce(d)]
              /\ attempts' = [attempts EXCEPT
                                 ![d] = Append(@, Attempt(contract_data, "transfer", "trying"))]
              /\ pc' = [pc EXCEPT ![d] = "transfer_send"]
              /\ UNCHANGED <<index, outcome, response, last_error>>
    /\ UNCHANGED <<globals, session_calls, req, contract_list, chain_calls, chain, ordvars>>

\* Lines 207-220: build, sign and broadcast the transfer transaction.
TransferSend(d, env) ==
    /\ pc[d] = "transfer_send"
    /\ LET contract_data == contract_list[d][index[d]]
           transfer_tx == [by |-> d, contract |-> contract_data.id, fn |-> "transfer",
                           nonce |-> frame[d].new_nonce,
                           amount |-> frame[d].amount_in_wei, gas |-> TransferGas]
       IN  \/ \* chain_id, build_transaction or sign_transaction raises
              /\ "build" \in env
              /\ attempts' = [attempts EXCEPT ![d] = WithResult(@, "failed")]
              /\ last_error' = [last_error EXCEPT ![d] = "build"]
              /\ TransferFailed(d)
              /\ UNCHANGED chain
           \/ \* send_raw_transaction raises
              /\ NodeRejects(transfer_tx) \/ "rejected" \in env
              /\ attempts' = [attempts EXCEPT ![d] = WithResult(@, "failed")]
              /\ last_error' = [last_error EXCEPT
                                   ![d] = IF NodeRejects(transfer_tx) THEN "nonce_rejected"
                                          ELSE "rejected"]
              /\ TransferFailed(d)
              /\ UNCHANGED chain
           \/ \* the node accepts the transaction
              /\ ~NodeRejects(transfer_tx)
              /\ pending' = pending \cup {transfer_tx}
              /\ frame' = [frame EXCEPT ![d].tx_hash = transfer_tx]
              /\ attempts' = [attempts EXCEPT ![d] = WithResult(@, "sent")]
              /\ pc' = [pc EXCEPT ![d] = "transfer_wait"]
              /\ UNCHANGED <<index, outcome, response, last_error, chain_nonce, receipts>>
    /\ UNCHANGED <<globals, session_calls, req, contract_list, chain_calls, ordvars>>

\* Lines 221-234: wait_for_transaction_receipt returns the receipt.
TransferReceipt(d) ==
    /\ pc[d] = "transfer_wait"
    /\ \E receipt \in receipts :
          /\ receipt.tx = frame[d].tx_hash
          /\ IF ReceiptOk(receipt)
             THEN /\ attempts' = [attempts EXCEPT ![d] = WithResult(@, "success")]
                  /\ ReturnSuccess(d, "transfer", receipt)
                  /\ UNCHANGED last_error
             ELSE /\ attempts' = [attempts EXCEPT ![d] = WithResult(@, "failed")]
                  /\ last_error' = [last_error EXCEPT ![d] = "revert"]
                  /\ TransferFailed(d)
    /\ UNCHANGED <<globals, session_calls, req, contract_list, chain_calls, chain, ordvars>>

\* Line 221: wait_for_transaction_receipt raises after timeout=120.
TransferTimeout(d) ==
    /\ pc[d] = "transfer_wait"
    /\ frame[d].tx_hash \in pending
    /\ attempts' = [attempts EXCEPT ![d] = WithResult(@, "failed")]
    /\ last_error' = [last_error EXCEPT ![d] = "timeout"]
    /\ TransferFailed(d)
    /\ UNCHANGED <<globals, session_calls, req, contract_list, chain_calls, chain, ordvars>>

(***************************************************************************)
(* Specifications.                                                         *)
(***************************************************************************)
Next ==
    \/ \E d \in Requests : WithdrawEndpoint(d)
    \/ \E d \in Requests : CallProcessWithdrawal(d)
    \/ \E d \in Requests : TryContract(d, Faults)
    \/ \E d \in Requests : MintSend(d, Faults)
    \/ \E d \in Requests : MintReceipt(d)
    \/ \E d \in Requests : MintTimeout(d)
    \/ \E d \in Requests : TransferNonce(d, Faults)
    \/ \E d \in Requests : TransferSend(d, Faults)
    \/ \E d \in Requests : TransferReceipt(d)
    \/ \E d \in Requests : TransferTimeout(d)
    \/ Mine(Faults)

\* One request, of any shape, against the chain.
Spec == Init /\ [][Next]_vars

(***************************************************************************)
(* Two concurrent withdrawal requests on the shared signer, each of which  *)
(* would succeed run alone: the process is ready, the requests are valid,  *)
(* and the environment injects no failure (NoFaults); what remains is the  *)
(* interleaving of the two handlers and of the chain.                      *)
(***************************************************************************)
NoFaults == {}

RaceRequests == [via : {"http"}, wallet : {ValidWallet}, amount : {"1.5"},
                 preferred : {None, Lower(CONTRACTS[3].address)}]

InitRace ==
    /\ web3_instance = "Web3"
    /\ admin_account = "LocalAccount"
    /\ web3_ready = TRUE
    /\ InitRequests
    /\ req \in [Requests -> RaceRequests]
    /\ ord_registry = CONTRACTS
    /\ ord_preferred = None
    /\ ord_result = <<>>
    /\ ord_done = TRUE

NextRace ==
    \/ \E d \in Requests : WithdrawEndpoint(d)
    \/ \E d \in Requests : TryContract(d, NoFaults)
    \/ \E d \in Requests : MintSend(d, NoFaults)
    \/ \E d \in Requests : MintReceipt(d)
    \/ \E d \in Requests : TransferNonce(d, NoFaults)
    \/ \E d \in Requests : TransferSend(d, NoFaults)
    \/ \E d \in Requests : TransferReceipt(d)
    \/ Mine(NoFaults)

SpecRace == InitRace /\ [][NextRace]_vars

(***************************************************************************)
(* One dispatch that runs on: the handler of a request is a sequential     *)
(* flow of blocking calls on its own thread, and every chain call returns, *)
(* raises or times out, so a step of the handler that can be taken is      *)
(* eventually taken.  The chain itself owes nothing: a pending transaction *)
(* may never be mined.                                                     *)
(***************************************************************************)
LiveRequests == [via : {"http", "call"}, wallet : {ValidWallet},
                 amount : {"1.5", "Infinity"},
                 preferred : {None, Lower(CONTRACTS[3].address)}]

InitLive ==
    /\ web3_instance = "Web3"
    /\ admin_account = "LocalAccount"
    /\ web3_ready = TRUE
    /\ InitRequests
    /\ \E r \in LiveRequests :
          req = [d \in Requests |-> IF d = "A" THEN r ELSE NoRequest]
    /\ ord_registry = CONTRACTS
    /\ ord_preferred = None
    /\ ord_result = <<>>
    /\ ord_done = TRUE

\* Any step of the handler of request d.
DispatchStep(d) ==
    \/ WithdrawEndpoint(d)
    \/ CallProcessWithdrawal(d)
    \/ TryContract(d, Faults)
    \/ MintSend(d, Faults)
    \/ MintReceipt(d)
    \/ MintTimeout(d)
    \/ TransferNonce(d, Faults)
    \/ TransferSend(d, Faults)
    \/ TransferReceipt(d)
    \/ TransferTimeout(d)

SpecLive == InitLive /\ [][Next]_vars /\ \A d \in Requests : WF_vars(DispatchStep(d))

(***************************************************************************)
(* Session bookkeeping: start and stop calls, for wallet addresses written  *)
(* in different cases or left out of the body, around one withdrawal that  *)
(* meets no failure.                                                       *)
(***************************************************************************)
MaxCalls == 4

SessionWallet == Addr(<<"a","B">>)
SessionWallets == {None, SessionWallet, Addr(<<"A","b">>), Addr(<<"c","D">>)}

\* data.get("walletAddress", "").lower(); None is a body without the field.
SessionKey(w) == IF w = None THEN <<>> ELSE Lower(w)

\* What datetime.now().timestamp() gives at the next call: the time of the
\* call, here its rank among the calls.
Now == Len(session_calls) + 1

\* Mutant of Stop: stop makes an inactive entry for an unknown address.
StopCreates(w) ==
    LET user_wallet == SessionKey(w)
    IN  /\ Len(session_calls) < MaxCalls
        /\ sessions' = [k \in DOMAIN sessions \cup {user_wallet} |->
                           IF k = user_wallet
                           THEN [start |-> 0, active |-> FALSE]
                           ELSE sessions[k]]
        /\ session_calls' = Append(session_calls,
                                   [op |-> "stop", wallet |-> w,
                                    response |-> [success |-> TRUE]])
        /\ UNCHANGED <<web3_instance, admin_account, web3_ready, pc, req, contract_list,
                       index, frame, outcome, response, last_error, attempts,
                       chain_calls, chain, ordvars>>

\* POST /api/engine/start, lines 271-277.
Start(w) ==
    LET user_wallet == SessionKey(w)
    IN  /\ Len(session_calls) < MaxCalls
        /\ sessions' = [k \in DOMAIN sessions \cup {user_wallet} |->
                           IF k = user_wallet
                           THEN [start |-> Now, active |-> TRUE]
                           ELSE sessions[k]]
        /\ session_calls' = Append(session_calls,
                                   [op |-> "start", wallet |-> w,
                                    response |-> [success |-> TRUE,
                                                  session_id |-> user_wallet]])
        /\ UNCHANGED <<web3_instance, admin_account, web3_ready, pc, req, contract_list,
                       index, frame, outcome, response, last_error, attempts,
                       chain_calls, chain, ordvars>>

\* POST /api/engine/stop, lines 317-323.
Stop(w) ==
    LET user_wallet == SessionKey(w)
    IN  /\ Len(session_calls) < MaxCalls
        /\ sessions' = IF user_wallet \in DOMAIN sessions
                       THEN [sessions EXCEPT ![user_wallet].active = FALSE]
                       ELSE sessions
        /\ session_calls' = Append(session_calls,
                                   [op |-> "stop", wallet |-> w,
                                    response |-> [success |-> TRUE]])
        /\ UNCHANGED <<web3_instance, admin_account, web3_ready, pc, req, contract_list,
                       index, frame, outcome, response, last_error, attempts,
                       chain_calls, chain, ordvars>>

InitSession ==
    /\ web3_instance = "Web3"
    /\ admin_account = "LocalAccount"
    /\ web3_ready = TRUE
    /\ InitRequests
    /\ req = [d \in Requests |->
                 IF d = "A"
                 THEN [via |-> "http", wallet |-> SessionWallet, amount |-> "1.5",
                       preferred |-> None]
                 ELSE NoRequest]
    /\ ord_registry = CONTRACTS
    /\ ord_preferred = None
    /\ ord_result = <<>>
    /\ ord_done = TRUE

NextSession ==
    \/ \E w \in SessionWallets : Start(w)
    \/ \E w \in SessionWallets : Stop(w)
    \/ \E d \in Requests : WithdrawEndpoint(d)
    \/ \E d \in Requests : TryContract(d, NoFaults)
    \/ \E d \in Requests : MintSend(d, NoFaults)
    \/ \E d \in Requests : MintReceipt(d)
    \/ Mine(NoFaults)

SpecSession == InitSession /\ [][NextSession]_vars

(***************************************************************************)
(* The ordering policy on its own, over every registry of up to            *)
(* MaxRegistry entries (identities 1..n, addresses pairwise different      *)
(* ignoring case) and every preferred address.                             *)
(***************************************************************************)
MaxRegistry == 3

OrderAddresses == {Addr(<<"a","B">>), Addr(<<"A","b">>), Addr(<<"c","D">>),
                   Addr(<<"1","e">>), Addr(<<"F","F">>)}

RegistryNames == <<"Primary", "Secondary", "Tertiary", "Quaternary", "Quinary">>

Registries ==
    { [i \in 1..Len(as) |-> [id |-> i, name |-> RegistryNames[i], address |-> as[i]]] :
        as \in { f \in UNION {[1..n -> OrderAddresses] : n \in 0..MaxRegistry} :
                   \A i, j \in 1..Len(f) : i # j => Lower(f[i]) # Lower(f[j]) } }

OrderPreferreds ==
    {None, <<>>, NoMatchAddress} \cup OrderAddresses
    \cup {Lower(a) : a \in OrderAddresses} \cup {Upper(a) : a \in OrderAddresses}

InitOrder ==
    /\ web3_instance = "Web3"
    /\ admin_account = "LocalAccount"
    /\ web3_ready = TRUE
    /\ InitRequests
    /\ req = [d \in Requests |-> NoRequest]
    /\ ord_registry \in Registries
    /\ ord_preferred \in OrderPreferreds
    /\ ord_result = <<>>
    /\ ord_done = FALSE

\* Lines 132-141 on ord_registry and ord_preferred.
BuildContractList ==
    /\ ~ord_done
    /\ ord_result' = OrderContracts(ord_registry, ord_preferred)
    /\ ord_done' = TRUE
    /\ UNCHANGED <<globals, session_calls, pc, req, contract_list, index, frame, outcome, response,
                   last_error, attempts, chain_calls, chain, ord_registry, ord_preferred>>

NextOrder == BuildContractList

SpecOrder == InitOrder /\ [][NextOrder]_vars

(***************************************************************************)
(* Properties.                                                             *)
(***************************************************************************)
\* The transactions of request d that the node accepted.
TxsOf(d) == {tx \in pending : tx.by = d} \cup {r.tx : r \in {x \in receipts : x.tx.by = d}}

\* The position of the contract with identity id in d's contract_list.
PosIn(d, id) == CHOOSE i \in 1..Len(contract_list[d]) : contract_list[d][i].id = id

\* Contract-then-operation rank of an attempt.
AttemptKey(d, e) == 2 * PosIn(d, e.contract) + (IF e.op = "mint" THEN 0 ELSE 1)

\* C1: as soon as an attempt has a receipt with success status the dispatch
\* returns a success outcome; that attempt is the last one of the dispatch,
\* and when it is the very first attempt (MINT on the first contract tried)
\* the dispatch has broadcast exactly one transaction.
C1_EarlyTermination ==
    \A d \in Requests : \A k \in 1..Len(attempts[d]) :
        attempts[d][k].result = "success" =>
            /\ k = Len(attempts[d])
            /\ pc[d] = "done"
            /\ outcome[d].kind = "return"
            /\ (k = 1 => Cardinality(TxsOf(d)) = 1)

C1_Witness ==
    \E d \in Requests :
        /\ Len(contract_list[d]) = 3
        /\ pc[d] = "done"
        /\ attempts[d] = <<Attempt(contract_list[d][1], "mint", "success")>>
        /\ Cardinality(TxsOf(d)) = 1

\* The attempts of the scenario of C2 over a list of three contracts.
ScenarioLog(d) ==
    << Attempt(contract_list[d][1], "mint", "failed"),
       Attempt(contract_list[d][1], "transfer", "failed"),
       Attempt(contract_list[d][2], "mint", "failed"),
       Attempt(contract_list[d][2], "transfer", "failed"),
       Attempt(contract_list[d][3], "mint", "failed"),
       Attempt(contract_list[d][3], "transfer", "success") >>

\* C2: the attempts of a dispatch are made in contract-then-operation order
\* over its ordered contract list, a TRANSFER only right after the MINT on
\* the same contract; and when MINT failed on all three contracts and
\* TRANSFER failed on the first two and succeeded on the third, the attempts
\* are exactly those six in that order and the outcome names the third
\* contract and method transfer.
C2_AttemptOrder ==
    \A d \in Requests :
        /\ \A k \in 1..(Len(attempts[d]) - 1) :
              AttemptKey(d, attempts[d][k]) < AttemptKey(d, attempts[d][k + 1])
        /\ \A k \in 1..Len(attempts[d]) :
              attempts[d][k].op = "transfer" =>
                  /\ k > 1
                  /\ attempts[d][k - 1].op = "mint"
                  /\ attempts[d][k - 1].contract = attempts[d][k].contract
        /\ ( /\ Len(contract_list[d]) = 3
             /\ {attempts[d][k] : k \in 1..Len(attempts[d])}
                    = {ScenarioLog(d)[k] : k \in 1..6} )
           => /\ attempts[d] = ScenarioLog(d)
              /\ pc[d] = "done"
              /\ outcome[d].kind = "return"
              /\ outcome[d].method = "transfer"
              /\ outcome[d].contract = contract_list[d][3].name
              /\ outcome[d].contractAddress = contract_list[d][3].address

C2_Witness ==
    \E d \in Requests :
        /\ Len(contract_list[d]) = 3
        /\ contract_list[d] # CONTRACTS
        /\ attempts[d] = ScenarioLog(d)

\* MINT and TRANSFER have both failed on every contract of d's list.
AllFailed(d) ==
    /\ contract_list[d] # <<>>
    /\ \A i \in 1..Len(contract_list[d]) : \A op \in {"mint", "transfer"} :
          \E k \in 1..Len(attempts[d]) :
              attempts[d][k] = Attempt(contract_list[d][i], op, "failed")

\* C3: when MINT and TRANSFER have failed on every contract, the dispatch
\* has ended with the exhaustion failure (HTTP 500, "All withdrawal methods
\* exhausted"), and none of its transactions is mined with success status.
C3_Exhaustion ==
    \A d \in Requests :
        AllFailed(d) =>
            /\ pc[d] = "done"
            /\ outcome[d] = ExhaustedError
            /\ ~\E r \in receipts : r.tx.by = d /\ r.status = 1

\* C4: a MINT attempt that failed, for whatever reason, is followed by the
\* TRANSFER attempt on the same contract: while it is the last attempt the
\* dispatch stands at the transfer block of that contract, and otherwise the
\* next attempt is the TRANSFER on that contract.
C4_MintFailureFallsBack ==
    \A d \in Requests : \A k \in 1..Len(attempts[d]) :
        (attempts[d][k].op = "mint" /\ attempts[d][k].result = "failed") =>
            IF k = Len(attempts[d])
            THEN /\ pc[d] = "transfer"
                 /\ contract_list[d][index[d]].id = attempts[d][k].contract
                 /\ outcome[d] = NoOutcome
            ELSE /\ attempts[d][k + 1].op = "transfer"
                 /\ attempts[d][k + 1].contract = attempts[d][k].contract

C4_Witness ==
    \E d \in Requests :
        /\ pc[d] = "transfer_send"
        /\ last_error[d] = "timeout"
        /\ Len(attempts[d]) = 2
        /\ attempts[d][1] = Attempt(contract_list[d][1], "mint", "failed")
        /\ attempts[d][2] = Attempt(contract_list[d][1], "transfer", "trying")

\* An amount that is not strictly positive (NaN is not greater than 0).
NotStrictlyPositive(a) == FloatOf(a).kind \in {"zero", "neg", "nan"}

\* C5: a withdrawal whose destination address is malformed or whose amount
\* is not strictly positive makes no chain call, no attempt and no
\* broadcast, and does not succeed.
C5_PreconditionRejection ==
    \A d \in Requests :
        (pc[d] # "idle"
           /\ (~IsAddress(req[d].wallet) \/ NotStrictlyPositive(req[d].amount))) =>
            /\ ~chain_calls[d]
            /\ attempts[d] = <<>>
            /\ TxsOf(d) = {}
            /\ outcome[d].kind # "return"

\* C6: every failed POST /api/engine/withdraw whose amount is a number is
\* answered 503 when the backend is not ready, 400 when the request fields
\* are invalid (missing or malformed destination address, non-positive
\* amount), and 500 otherwise (exhaustion or a mid-flight error).
C6_StatusMapping ==
    \A d \in Requests :
        ( /\ req[d].via = "http"
          /\ pc[d] = "done"
          /\ response[d].status # 200
          /\ FloatOf(req[d].amount).kind # "unparsable" ) =>
            response[d].status =
                IF ~web3_ready THEN 503
                ELSE IF ~IsAddress(req[d].wallet) \/ AmountNotPositive(req[d].amount)
                THEN 400
                ELSE 500

\* The entries of the registry that the preferred address names.
Matches(registry, preferred_contract) ==
    IF Truthy(preferred_contract)
    THEN {i \in 1..Len(registry) : Lower(registry[i].address) = Lower(preferred_contract)}
    ELSE {}

\* seq without its i-th element.
Without(seq, i) == SubSeq(seq, 1, i - 1) \o SubSeq(seq, i + 1, Len(seq))

\* C7: when the preferred address equals a registry entry's address ignoring
\* case, the ordered list has that entry first and then the other entries in
\* registry order; it is a permutation of the registry.
C7_PreferredFirst ==
    ord_done =>
        \A i \in Matches(ord_registry, ord_preferred) :
            /\ ord_result = <<ord_registry[i]>> \o Without(ord_registry, i)
            /\ Len(ord_result) = Len(ord_registry)
            /\ \A j \in 1..Len(ord_registry) :
                  Cardinality({k \in 1..Len(ord_result) : ord_result[k] = ord_registry[j]}) = 1

C7_Witness ==
    /\ ord_done
    /\ Len(ord_registry) = 3
    /\ Matches(ord_registry, ord_preferred) = {3}
    /\ ord_registry[3].address # ord_preferred
    /\ ord_result[1] = ord_registry[3]

\* C8: when no preferred address is given, or it matches no registry entry,
\* the ordered list is the registry in its own order.
C8_NativeOrder ==
    (ord_done /\ Matches(ord_registry, ord_preferred) = {}) => ord_result = ord_registry

C8_Witness ==
    /\ ord_done
    /\ Len(ord_registry) = 3
    /\ Truthy(ord_preferred)
    /\ Matches(ord_registry, ord_preferred) = {}
    /\ ord_result = ord_registry

\* C9: of two concurrent requests that would each succeed alone, the one
\* whose transaction is refused for its nonce recovers: every request that
\* has ended has ended in success.
C9_RaceRecovery ==
    \A d \in Requests : pc[d] = "done" => outcome[d].kind = "return"

\* floor(amount * 10^decimals), the amount being the double's exact value.
ExactBaseUnits(a, decimals) ==
    LET x == FloatOf(a)
        product == NatMul(x.m, NatPow10(decimals))
    IN  IF x.e >= 0 THEN NatShl(product, x.e) ELSE NatShr(product, 0 - x.e)

\* C10: in every attempt the base-unit integer in use and in the broadcast
\* transaction is the requested amount times 10^decimals truncated, with the
\* decimals resolved for the contract.
C10_AmountConversion ==
    \A d \in Requests :
        pc[d] \in {"mint", "mint_wait", "transfer", "transfer_send", "transfer_wait"} =>
            /\ frame[d].amount_in_wei
                   = ExactBaseUnits(req[d].amount, frame[d].token_decimals)
            /\ pc[d] \in {"mint_wait", "transfer_wait"} =>
                   frame[d].tx_hash.amount = frame[d].amount_in_wei

\* C11: with a positive amount no contract is skipped: every contract that
\* the dispatch has left behind has had its MINT attempted, whatever the
\* contract's chain reads gave, and the dispatch ends in the exhaustion
\* failure only after 2N failed attempts over its N contracts.
C11_NoContractSkipped ==
    \A d \in Requests :
        FloatOf(req[d].amount).kind = "pos" =>
            /\ \A i \in 1..Len(contract_list[d]) :
                  (i < index[d] \/ (i = index[d] /\ pc[d] = "done")) =>
                      \E k \in 1..Len(attempts[d]) :
                          /\ attempts[d][k].contract = contract_list[d][i].id
                          /\ attempts[d][k].op = "mint"
            /\ outcome[d] = ExhaustedError =>
                  /\ AllFailed(d)
                  /\ Len(attempts[d]) = 2 * Len(contract_list[d])

\* The receipts with success status of the transactions of request d.
Payouts(d) == {r \in receipts : r.tx.by = d /\ r.status = 1}

\* C12: at most one of the transactions that a dispatch broadcast is ever
\* mined with success status.
C12_AtMostOnePayout ==
    \A d \in Requests : Cardinality(Payouts(d)) <= 1

\* C13: a success outcome is returned only for a receipt with status 1 of
\* the last transaction the dispatch broadcast, and its method, contract
\* name and address, transaction hash, block number and gas used are those
\* of that attempt and receipt; the last attempt of the log is that one.
C13_SuccessFidelity ==
    \A d \in Requests :
        outcome[d].kind = "return" =>
            \E r \in receipts :
                /\ r.status = 1
                /\ r.tx.by = d
                /\ \A tx \in TxsOf(d) : tx.nonce <= r.tx.nonce
                /\ outcome[d].txHash = r.tx
                /\ outcome[d].blockNumber = r.blockNumber
                /\ outcome[d].gasUsed = r.gasUsed
                /\ outcome[d].method = r.tx.fn
                /\ \E i \in 1..Len(contract_list[d]) :
                      /\ contract_list[d][i].id = r.tx.contract
                      /\ outcome[d].contract = contract_list[d][i].name
                      /\ outcome[d].contractAddress = contract_list[d][i].address
                      /\ attempts[d][Len(attempts[d])]
                             = Attempt(contract_list[d][i], r.tx.fn, "success")

C13_Witness ==
    \E d \in Requests :
        /\ outcome[d].kind = "return"
        /\ outcome[d].method = "transfer"
        /\ outcome[d].contract = "Secondary"
        /\ \E r \in receipts : r.tx.by = d /\ r.status = 0

\* C14: the nonce of a TRANSFER is read from the chain when the transfer
\* block starts, after the MINT on the same contract has ended, and the
\* nonce of a MINT is read in the iteration of its contract; the transfer
\* transaction carries the nonce read for it, and after a MINT that was mined
\* and reverted that nonce is strictly greater than the MINT's.
C14_FreshNonce ==
    /\ [](\A d \in Requests :
             /\ pc[d] \in {"transfer_send", "transfer_wait"} =>
                   /\ frame[d].new_nonce >= frame[d].current_nonce
                   /\ last_error[d] = "revert" =>
                         frame[d].new_nonce > frame[d].current_nonce
             /\ pc[d] = "transfer_wait" => frame[d].tx_hash.nonce = frame[d].new_nonce
             /\ pc[d] = "mint_wait" => frame[d].tx_hash.nonce = frame[d].current_nonce)
    /\ [][\A d \in Requests :
             /\ (pc[d] = "transfer" /\ pc'[d] = "transfer_send") =>
                   frame'[d].new_nonce = chain_nonce
             /\ (pc[d] = "contract" /\ pc'[d] = "mint") =>
                   frame'[d].current_nonce = chain_nonce]_vars

C14_Witness ==
    \E d \in Requests :
        /\ pc[d] = "transfer_wait"
        /\ last_error[d] = "revert"
        /\ index[d] = 2
        /\ frame[d].tx_hash.nonce > frame[d].current_nonce
        /\ frame[d].current_nonce > 0

\* C15: within one dispatch each (contract, operation) pair is attempted at
\* most once and at most 2N transactions are broadcast over N contracts; the
\* dispatch never goes back to an earlier contract, and once it has ended it
\* makes no further attempt and broadcasts nothing more.
C15_NoRetry ==
    /\ [](\A d \in Requests :
             /\ \A j, k \in 1..Len(attempts[d]) :
                   ( /\ attempts[d][j].contract = attempts[d][k].contract
                     /\ attempts[d][j].op = attempts[d][k].op ) => j = k
             /\ Len(attempts[d]) <= 2 * Len(contract_list[d])
             /\ Cardinality(TxsOf(d)) <= 2 * Len(contract_list[d]))
    /\ [][\A d \in Requests :
             /\ index'[d] >= index[d]
             /\ pc[d] = "done" =>
                   /\ pc'[d] = "done"
                   /\ attempts'[d] = attempts[d]
                   /\ outcome'[d] = outcome[d]
                   /\ TxsOf(d)' = TxsOf(d)]_vars

C15_Witness ==
    \E d \in Requests :
        /\ pc[d] = "done"
        /\ outcome[d] = ExhaustedError
        /\ Len(attempts[d]) = 6
        /\ Cardinality(TxsOf(d)) = 6

\* C16: when the metadata lookup of a contract failed, the dispatch goes on
\* with that same contract, with symbol TOKEN and 18 decimals: it stands in
\* the MINT or TRANSFER attempt of that contract with the amount converted
\* at 18 decimals, has not ended, and a success reached there reports the
\* symbol TOKEN and carries that amount.
C16_MetadataFallback ==
    /\ [](\A d \in Requests :
             /\ frame[d].token_symbol = "TOKEN" =>
                   /\ frame[d].token_decimals = 18
                   /\ frame[d].amount_in_wei = AmountInWei(req[d].amount, 18)
                   /\ pc[d] \in {"mint", "mint_wait", "transfer", "transfer_send",
                                 "transfer_wait"}
                   /\ outcome[d] = NoOutcome
             /\ (outcome[d].kind = "return" /\ outcome[d].symbol = "TOKEN") =>
                   outcome[d].txHash.amount = AmountInWei(req[d].amount, 18))
    /\ [][\A d \in Requests :
             (pc[d] = "contract" /\ frame'[d].token_symbol = "TOKEN") =>
                 /\ pc'[d] = "mint"
                 /\ index'[d] = index[d]]_vars

C16_Witness ==
    \E d \in Requests :
        /\ outcome[d].kind = "return"
        /\ outcome[d].symbol = "TOKEN"
        /\ outcome[d].method = "transfer"
        /\ outcome[d].contract = "Primary"
        /\ Len(attempts[d]) = 2

\* Every transaction of the signer that the node accepted.
AllTxs == pending \cup {r.tx : r \in receipts}

\* C17: two concurrent dispatches may read the same signer nonce and both
\* send a transaction carrying it; the node accepts at most one transaction
\* per nonce, and the refusal of the other is the failure of that one
\* attempt: its dispatch goes on with the next operation and ends only in a
\* success or in the exhaustion failure after all its attempts have failed.
C17_NonceRace ==
    /\ \A t1, t2 \in AllTxs : t1.nonce = t2.nonce => t1 = t2
    /\ \A d \in Requests :
          last_error[d] = "nonce_rejected" =>
              /\ attempts[d] # <<>>
              /\ pc[d] = "transfer" =>
                    /\ outcome[d] = NoOutcome
                    /\ attempts[d][Len(attempts[d])]
                           = Attempt(contract_list[d][index[d]], "mint", "failed")
              /\ pc[d] = "done" =>
                    \/ outcome[d].kind = "return"
                    \/ outcome[d] = ExhaustedError /\ AllFailed(d)

C17_Witness ==
    \E a, b \in Requests :
        /\ a # b
        /\ pc[a] = "mint_wait"
        /\ frame[a].tx_hash \in pending
        /\ frame[b].current_nonce = frame[a].tx_hash.nonce
        /\ pc[b] = "transfer"
        /\ last_error[b] = "nonce_rejected"
        /\ attempts[b] = <<Attempt(contract_list[b][1], "mint", "failed")>>

\* C18: when init_web3 did not succeed, every withdrawal (here: of a positive
\* amount to a well-formed address) that has been handled, through the
\* endpoint or through process_withdrawal, has ended with the not-ready
\* error (503) without a chain call, an attempt or a broadcast.
C18_UninitializedBlocks ==
    \A d \in Requests :
        ( /\ ~web3_ready
          /\ pc[d] # "idle"
          /\ IsAddress(req[d].wallet)
          /\ FloatOf(req[d].amount).kind = "pos" ) =>
            /\ pc[d] = "done"
            /\ ~chain_calls[d]
            /\ attempts[d] = <<>>
            /\ TxsOf(d) = {}
            /\ req[d].via = "http" => response[d].status = 503
            /\ req[d].via = "call" => outcome[d] = NotConnectedError

\* The dispatch of request d is in its loop over the contracts.
InLoop(d) == pc[d] \in {"contract", "mint", "mint_wait", "transfer", "transfer_send",
                        "transfer_wait"}

\* C19: every dispatch that passed its preconditions eventually ends, and
\* it ends with a success outcome or with the exhaustion failure, never in
\* another way.
C19_Termination ==
    /\ \A d \in Requests : InLoop(d) ~> (pc[d] = "done")
    /\ [](\A d \in Requests :
             (pc[d] = "done" /\ contract_list[d] # <<>>) =>
                 \/ outcome[d].kind = "return"
                 \/ outcome[d] = ExhaustedError)

C19_Witness ==
    \E d \in Requests :
        /\ pc[d] = "done"
        /\ outcome[d] = ExhaustedError
        /\ last_error[d] = "timeout"
        /\ TxsOf(d) \cap pending # {}

\* The ranks of the start and stop calls made for session key k.
CallsFor(k) == {i \in 1..Len(session_calls) : SessionKey(session_calls[i].wallet) = k}

\* C20: the session of an address, compared ignoring case, exists iff start
\* was ever called for it and is active iff the last start or stop call for
\* it was a start; every start and stop call succeeds, a stop on an address
\* without a session creates no entry, no entry is ever removed, a step of
\* a withdrawal leaves the session map as it is, and the withdrawal ends the
\* same way whatever the sessions are.
C20_SessionBookkeeping ==
    /\ [](/\ \A w \in SessionWallets :
                LET k == SessionKey(w)
                    started == {i \in CallsFor(k) : session_calls[i].op = "start"}
                IN  /\ k \in DOMAIN sessions <=> started # {}
                    /\ k \in DOMAIN sessions =>
                          LET last == CHOOSE i \in CallsFor(k) :
                                          \A j \in CallsFor(k) : j <= i
                          IN  /\ sessions[k].active <=> session_calls[last].op = "start"
                              /\ \A i \in started : i <= sessions[k].start
                              /\ sessions[k].start \in started
          /\ DOMAIN sessions \subseteq {SessionKey(w) : w \in SessionWallets}
          /\ \A i \in 1..Len(session_calls) : session_calls[i].response.success
          /\ \A d \in Requests :
                pc[d] = "done" =>
                    /\ response[d].status = 200
                    /\ outcome[d].method = "mint"
                    /\ outcome[d].contract = "Primary")
    /\ [][/\ DOMAIN sessions \subseteq DOMAIN sessions'
          /\ session_calls' = session_calls => sessions' = sessions
          /\ session_calls' # session_calls =>
                UNCHANGED <<pc, outcome, response, attempts, chain>>]_vars

C20_Witness ==
    /\ Len(session_calls) = 3
    /\ session_calls[1].op = "stop" /\ session_calls[1].wallet = Addr(<<"c","D">>)
    /\ session_calls[2].op = "start" /\ session_calls[2].wallet = Addr(<<"a","B">>)
    /\ session_calls[3].op = "stop" /\ session_calls[3].wallet = Addr(<<"A","b">>)
    /\ DOMAIN sessions = {Lower(SessionWallet)}
    /\ ~sessions[Lower(SessionWallet)].active
    /\ pc["A"] = "done"

====
